---- MODULE Spec2Model ----
(***************************************************************************)
(* simplemma: the dictionary factory (dictionary_factory.py) and the token *)
(* sampler (token_sampler.py) as state machines.                           *)
(*                                                                         *)
(* Spec        : one DictionaryFactory, any sequence of get_dictionaries   *)
(*               calls, the disk loader free to fail on any invocation.    *)
(* LruSpec     : Spec, with the order of the accesses to the LRU wrapper   *)
(*               recorded beside the program.                              *)
(* LoaderSpec  : Spec, with the codes requested and the runs of the disk   *)
(*               loader recorded beside the program.                       *)
(* KeepSpec    : Spec, with a caller that keeps a reference to a mapping   *)
(*               an earlier call returned.                                 *)
(* PairSpec    : two DictionaryFactory instances called in any order.      *)
(* SamplerSpec : one MostCommonTokenSampler and one bounded token          *)
(*               sequence, on which sample_tokens is called.               *)
(* StrategySpec: a chain of LemmatizationStrategy objects asked for the    *)
(*               lemma of one token.                                       *)
(***************************************************************************)
EXTENDS Integers, Sequences, FiniteSets, TLC

VARIABLES
    cache_max_size,  \* the maxsize given to lru_cache by __init__
    data,            \* self._data: a reference (object id) into heap
    heap,            \* the live dict objects: object id -> keys in insertion order
    cache,           \* the lru_cache store: language codes, least recently used first
    call,            \* the most recent get_dictionaries call: argument type, outcome,
                     \* object returned, trace of the loop
    request,         \* the most recent call that passed _control_lang: codes, outcome,
                     \* number of codes the loop was done with when the call ended
    recency,         \* history: codes served by the LRU wrapper, oldest access first
    requested,       \* history: supported codes named by any request so far
    disk_ran,        \* history: codes _load_dictionary_from_disk has run for
    disk_loaded,     \* history: codes it has returned a dictionary for
    sampler,         \* the MostCommonTokenSampler: sample_size, capitalized_threshold
    sample,          \* the most recent sample_tokens call: tokens, outcome, result
    earlier,         \* a mapping the caller kept from an earlier call: its object id
                     \* and the keys it had when it was returned
    other,           \* a second DictionaryFactory: its _data, its dict objects, its
                     \* lru_cache store and its most recent call
    lookup           \* a lemma lookup through a chain of strategies: the chain, the
                     \* token and language, the strategy reached, the outcome

fvars == <<cache_max_size, data, heap, cache, call, request,
           recency, requested, disk_ran, disk_loaded>>
svars == <<sampler, sample>>
xvars == <<earlier, other, lookup>>
vars == <<fvars, svars, xvars>>

----------------------------------------------------------------------------
(* Bounds *)

\* Longest tuple or list passed to get_dictionaries.
MaxLangs == 2
\* Largest cache_max_size a factory is built with.
MaxCacheSize == 2
\* Longest token sequence passed to sample_tokens.
MaxTokens == 4
\* Largest sample_size tried besides the defaults.
MaxSample == 2

----------------------------------------------------------------------------
(* Sequences *)

Range(s) == {s[i] : i \in 1..Len(s)}

SeqsUpTo(S, n) == UNION {[1..k -> S] : k \in 0..n}

RECURSIVE Without(_, _)
\* s with every occurrence of x removed
Without(s, x) ==
    IF s = <<>> THEN <<>>
    ELSE IF Head(s) = x THEN Without(Tail(s), x)
    ELSE <<Head(s)>> \o Without(Tail(s), x)

Min(a, b) == IF a < b THEN a ELSE b

----------------------------------------------------------------------------
(* Language codes *)

\* The supported-language list imported from .constants (three of its codes).
LANGLIST == {"de", "en", "es"}

\* The codes a caller passes: the supported ones and one unsupported code,
\* listed in the order Python's str comparison gives them.
CodeOrder == <<"de", "en", "es", "xx">>
Codes == Range(CodeOrder)

Rank(code) == CHOOSE i \in 1..Len(CodeOrder) : CodeOrder[i] = code

RECURSIVE Insert(_, _)
Insert(sorted, x) ==
    IF sorted = <<>> THEN <<x>>
    ELSE IF Rank(x) < Rank(Head(sorted)) THEN <<x>> \o sorted
    ELSE <<Head(sorted)>> \o Insert(Tail(sorted), x)

RECURSIVE Sorted(_)
\* sorted(iterable): the items in ascending order, duplicates kept
Sorted(s) == IF s = <<>> THEN <<>> ELSE Insert(Sorted(SubSeq(s, 1, Len(s) - 1)), s[Len(s)])

----------------------------------------------------------------------------
(* Python values: a value carries its type. A str holds its text as the    *)
(* single item of value.                                                   *)

PyStr(text) == [type |-> "str", value |-> <<text>>]
PyTuple(items) == [type |-> "tuple", value |-> items]
PyList(items) == [type |-> "list", value |-> items]
PyNone == [type |-> "NoneType", value |-> <<>>]

\* a == b on sequences: a tuple never equals a list
PyEq(a, b) == a.type = b.type /\ a.value = b.value

\* The arguments a caller passes to get_dictionaries.
Args ==
    {PyStr(c) : c \in Codes}
    \cup {PyTuple(s) : s \in SeqsUpTo(Codes, MaxLangs)}
    \cup {PyList(s) : s \in SeqsUpTo(Codes, 1)}
    \cup {PyNone}

----------------------------------------------------------------------------
(* dict objects: the keys in insertion order. The value stored under a     *)
(* code is that language's dictionary, which the loader determines from    *)
(* the code alone.                                                         *)

None == 0

\* a dict is true when it is not empty
Truthy(keys) == keys # <<>>

\* d[key] = value: a new key goes last, a present key keeps its place
DictSet(keys, key) == IF key \in Range(keys) THEN keys ELSE Append(keys, key)

\* d.pop(key)
DictPop(keys, key) == Without(keys, key)

RECURSIVE DictPopAll(_, _)
DictPopAll(keys, gone) ==
    IF gone = <<>> THEN keys ELSE DictPopAll(DictPop(keys, Head(gone)), Tail(gone))

\* the dict self._data refers to, emptied and filled again in place
SameObject(held, current) == current

\* {}: an object distinct from every live object, which are those the caller
\* holds and the one self._data refers to
NewObject(held, current) ==
    LET live == held \cup {current}
    IN  CHOOSE id \in 1..(Cardinality(live) + 1) : id \notin live

----------------------------------------------------------------------------
(* _control_lang *)

\* _control_lang that takes a list for a tuple
control_lang_list(lang) ==
    LET converted == IF lang.type \in {"str"} THEN PyTuple(<<lang.value[1]>>)
                     ELSE IF lang.type = "list" THEN PyTuple(lang.value) ELSE lang
    IN  IF converted.type # "tuple"
        THEN [raised |-> TRUE, value |-> PyNone]
        ELSE [raised |-> FALSE, value |-> converted]

control_lang(lang) ==
    LET converted == IF lang.type = "str" THEN PyTuple(<<lang.value[1]>>) ELSE lang
    IN  IF converted.type # "tuple"
        THEN [raised |-> TRUE, value |-> PyNone]
        ELSE [raised |-> FALSE, value |-> converted]

----------------------------------------------------------------------------
(* The loader wrapped by functools.lru_cache(maxsize = cache_max_size).    *)
(* readable: whether _load_dictionary_from_disk, if this call runs it,     *)
(* finds a readable resource. kind is "hit" (served from the store),       *)
(* "load" (the loader ran and returned) or "fail" (the loader ran and      *)
(* raised: nothing is stored).                                             *)

\* a store that never makes room
load_unbounded(store, maxsize, langcode, readable) ==
    IF maxsize = 0 THEN
        [store |-> store, kind |-> IF readable THEN "load" ELSE "fail", evicted |-> <<>>]
    ELSE IF langcode \in Range(store) THEN
        [store |-> Append(Without(store, langcode), langcode), kind |-> "hit",
         evicted |-> <<>>]
    ELSE IF ~readable THEN
        [store |-> store, kind |-> "fail", evicted |-> <<>>]
    ELSE
        [store |-> Append(store, langcode), kind |-> "load", evicted |-> <<>>]

\* a store that evicts in order of insertion: a hit does not renew the entry
load_fifo(store, maxsize, langcode, readable) ==
    IF maxsize = 0 THEN
        [store |-> store, kind |-> IF readable THEN "load" ELSE "fail", evicted |-> <<>>]
    ELSE IF langcode \in Range(store) THEN
        [store |-> store, kind |-> "hit", evicted |-> <<>>]
    ELSE IF ~readable THEN
        [store |-> store, kind |-> "fail", evicted |-> <<>>]
    ELSE IF Len(store) >= maxsize THEN
        [store |-> Append(Tail(store), langcode), kind |-> "load",
         evicted |-> <<Head(store)>>]
    ELSE
        [store |-> Append(store, langcode), kind |-> "load", evicted |-> <<>>]

\* the loader without lru_cache around it
load_uncached(store, maxsize, langcode, readable) ==
    [store |-> store, kind |-> IF readable THEN "load" ELSE "fail", evicted |-> <<>>]

\* a wrapper that remembers a failure as it remembers a result
load_remembers_failure(store, maxsize, langcode, readable) ==
    IF maxsize = 0 THEN
        [store |-> store, kind |-> IF readable THEN "load" ELSE "fail", evicted |-> <<>>]
    ELSE IF langcode \in Range(store) THEN
        [store |-> Append(Without(store, langcode), langcode), kind |-> "hit",
         evicted |-> <<>>]
    ELSE IF Len(store) >= maxsize THEN
        [store |-> Append(Tail(store), langcode),
         kind |-> IF readable THEN "load" ELSE "fail", evicted |-> <<Head(store)>>]
    ELSE
        [store |-> Append(store, langcode),
         kind |-> IF readable THEN "load" ELSE "fail", evicted |-> <<>>]

load_dictionary_from_disk(store, maxsize, langcode, readable) ==
    IF maxsize = 0 THEN
        \* no caching: the loader runs every time
        [store |-> store, kind |-> IF readable THEN "load" ELSE "fail", evicted |-> <<>>]
    ELSE IF langcode \in Range(store) THEN
        \* a hit makes the entry the most recently used
        [store |-> Append(Without(store, langcode), langcode), kind |-> "hit",
         evicted |-> <<>>]
    ELSE IF ~readable THEN
        [store |-> store, kind |-> "fail", evicted |-> <<>>]
    ELSE IF Len(store) >= maxsize THEN
        \* full: the oldest entry makes room
        [store |-> Append(Tail(store), langcode), kind |-> "load",
         evicted |-> <<Head(store)>>]
    ELSE
        [store |-> Append(store, langcode), kind |-> "load", evicted |-> <<>>]

----------------------------------------------------------------------------
(* DictionaryFactory *)

\* __init__
DictionaryFactory(maxsize) ==
    [data |-> 1, heap |-> (1 :> <<>>), cache |-> <<>>, cache_max_size |-> maxsize]

\* the early return taken whenever the sorted keys and the sorted request
\* hold the same codes
FastPathSameCodes(keys, langs) ==
    Truthy(keys) /\ Sorted(keys) = Sorted(langs)

\* the test that guards the early return of get_dictionaries
FastPath(keys, langs) ==
    Truthy(keys) /\ PyEq(PyTuple(Sorted(keys)), PyList(Sorted(langs)))

\* the working set kept as it was, nothing dropped from it
RebuildKeepsAll(keys, langs) == keys

\* line 50 and the loop of lines 51-52: self._data is a new empty dict, from
\* which the codes not requested are popped. keys: the working set before.
Rebuild(keys, langs) ==
    LET empty == <<>>
        stale == SelectSeq(empty, LAMBDA lang : lang \notin Range(langs))
    IN  DictPopAll(empty, stale)

\* every code taken for a supported one
IsSupportedAny(lang) == TRUE

\* lang in LANGLIST
IsSupported(lang) == lang \in LANGLIST

\* an unsupported code that ends the call
SkipRaises(st, lang) ==
    [st EXCEPT !.trace = Append(@, [lang |-> lang, kind |-> "unsupported", evicted |-> <<>>]),
               !.raised = TRUE]

\* an unsupported code: logged, and the loop goes on
Skip(st, lang) ==
    [st EXCEPT !.trace = Append(@, [lang |-> lang, kind |-> "unsupported", evicted |-> <<>>])]

\* a loader failure caught in the loop, which goes on with the next code
LoadSwallows(st, lang, maxsize, readable) ==
    LET r == load_dictionary_from_disk(st.cache, maxsize, lang, readable)
    IN  [keys |-> IF r.kind = "fail" THEN st.keys ELSE DictSet(st.keys, lang),
         cache |-> r.store,
         trace |-> Append(st.trace, [lang |-> lang, kind |-> r.kind, evicted |-> r.evicted]),
         raised |-> FALSE]

\* a supported code: self._data[lang] = self._load_dictionary_from_disk(lang)
Load(st, lang, maxsize, readable) ==
    LET r == load_dictionary_from_disk(st.cache, maxsize, lang, readable)
    IN  [keys |-> IF r.kind = "fail" THEN st.keys ELSE DictSet(st.keys, lang),
         cache |-> r.store,
         trace |-> Append(st.trace, [lang |-> lang, kind |-> r.kind, evicted |-> r.evicted]),
         raised |-> r.kind = "fail"]

RECURSIVE LoadLoop(_, _, _, _, _)
\* The loop of lines 54-59 over the codes still to load. st is the state so
\* far: the keys of self._data, the LRU store, the trace, and whether the
\* loader has raised. fail_at: the position in the loop at which the loader,
\* should it run there, finds no readable resource (0: nowhere; a failure
\* ends the loop, so one position is all a call can show).
LoadLoop(todo, i, st, maxsize, fail_at) ==
    IF todo = <<>> \/ st.raised THEN st
    ELSE LoadLoop(Tail(todo), i + 1,
                  IF ~IsSupported(Head(todo)) THEN Skip(st, Head(todo))
                  ELSE Load(st, Head(todo), maxsize, i # fail_at),
                  maxsize, fail_at)

\* get_dictionaries on the factory self. held: the dict objects the caller
\* refers to. The result: the factory afterwards, the outcome, the object
\* returned (None when the call raised) and the trace of the loop.
get_dictionaries(self, arg, held, fail_at) ==
    LET c == control_lang(arg) IN
    IF c.raised THEN
        [self |-> self, outcome |-> "TypeError", ret |-> None, trace |-> <<>>]
    ELSE
    LET langs == c.value.value IN
    IF FastPath(self.heap[self.data], langs) THEN
        [self |-> self, outcome |-> "ok", ret |-> self.data, trace |-> <<>>]
    ELSE
    LET fresh == NewObject(held, self.data)
        kept == Rebuild(self.heap[self.data], langs)
        todo == SelectSeq(langs, LAMBDA lang : lang \notin Range(kept))
        st == LoadLoop(todo, 1,
                       [keys |-> kept, cache |-> self.cache, trace |-> <<>>,
                        raised |-> FALSE],
                       self.cache_max_size, fail_at)
        live == held \cup {fresh}
    IN  [self |-> [self EXCEPT !.data = fresh,
                               !.heap = [id \in live |->
                                            IF id = fresh THEN st.keys ELSE self.heap[id]],
                               !.cache = st.cache],
         outcome |-> IF st.raised THEN "LoadError" ELSE "ok",
         ret |-> IF st.raised THEN None ELSE fresh,
         trace |-> st.trace]

----------------------------------------------------------------------------
(* The factory as a state machine *)

NoCall == [type |-> "none", outcome |-> "none", ret |-> None, trace |-> <<>>]
NoSample == [tokens |-> <<>>, outcome |-> "none", result |-> <<>>]
NoSampler == [sample_size |-> 0, capitalized_threshold |-> <<0, 1>>]
NoEarlier == [id |-> None, keys |-> <<>>]
NoLookup == [chain |-> <<>>, token |-> "", lang |-> "", working |-> <<>>, at |-> 0,
             outcome |-> "none", value |-> ""]

\* a second factory, built with the same cache_max_size, before its first call
SecondFactory(maxsize) ==
    [data |-> DictionaryFactory(maxsize).data, heap |-> DictionaryFactory(maxsize).heap,
     cache |-> DictionaryFactory(maxsize).cache, call |-> NoCall]

Init ==
    /\ cache_max_size \in 0..MaxCacheSize
    /\ data = DictionaryFactory(cache_max_size).data
    /\ heap = DictionaryFactory(cache_max_size).heap
    /\ cache = DictionaryFactory(cache_max_size).cache
    /\ call = NoCall
    /\ request = [langs |-> <<>>, outcome |-> "none", done |-> 0]
    /\ recency = <<>>
    /\ requested = {}
    /\ disk_ran = {}
    /\ disk_loaded = {}
    /\ sampler = NoSampler
    /\ sample = NoSample
    /\ earlier = NoEarlier
    /\ other = SecondFactory(cache_max_size)
    /\ lookup = NoLookup

\* One call factory.get_dictionaries(arg). The caller holds the mapping the
\* call before returned (call.ret) while this call runs, and lets go of it
\* when this call is over; the mapping it kept from an earlier call
\* (earlier.id), if any, it holds on to.
GetDictionaries(arg, fail_at) ==
    LET self == [data |-> data, heap |-> heap, cache |-> cache,
                 cache_max_size |-> cache_max_size]
        held == {call.ret, earlier.id} \ {None}
    IN  \E r \in {get_dictionaries(self, arg, held, fail_at)} :
        LET c == control_lang(arg)
            live == {r.self.data, r.ret, earlier.id} \ {None} IN
        /\ data' = r.self.data
        /\ heap' = [id \in live |-> r.self.heap[id]]
        /\ cache' = r.self.cache
        /\ call' = [type |-> arg.type, outcome |-> r.outcome, ret |-> r.ret,
                    trace |-> r.trace]
        /\ request' = IF c.raised THEN request
                      ELSE [langs |-> c.value.value, outcome |-> r.outcome,
                            done |-> IF r.outcome = "LoadError" THEN Len(r.trace) - 1
                                     ELSE Len(c.value.value)]
        /\ UNCHANGED <<cache_max_size, svars, other, lookup>>

----------------------------------------------------------------------------
(* History kept beside the program, read by the properties only *)

RECURSIVE Touched(_, _)
\* the access order after the events of a trace: a code the wrapper served
\* (from the store or from disk) becomes the most recent
Touched(order, trace) ==
    IF trace = <<>> THEN order
    ELSE LET ev == Head(trace) IN
         Touched(IF ev.kind \in {"hit", "load"}
                 THEN Append(Without(order, ev.lang), ev.lang) ELSE order,
                 Tail(trace))

\* how many events of the trace are of one of the kinds and about the code
Count(trace, lang, kinds) ==
    Cardinality({i \in 1..Len(trace) : trace[i].lang = lang /\ trace[i].kind \in kinds})

\* the codes the trace has an event of one of the kinds about
Seen(trace, kinds) == {lang \in LANGLIST : Count(trace, lang, kinds) > 0}

\* the access order after the call the step made
RecordAccess == recency' = Touched(recency, call'.trace)

\* the requests and the loader's runs after the call the step made
RecordLoader ==
    /\ requested' = IF call'.outcome = "TypeError" THEN requested
                    ELSE requested \cup (Range(request'.langs) \cap LANGLIST)
    /\ disk_ran' = disk_ran \cup Seen(call'.trace, {"load", "fail"})
    /\ disk_loaded' = disk_loaded \cup Seen(call'.trace, {"load"})

\* the positions at which the loader can be made to fail during a call (0:
\* nowhere): those at which it can run. It runs for the supported codes of a
\* str or tuple argument that the store does not hold; a code the store
\* holds is served from it unless a code before it in the request was
\* loaded, which can have displaced it.
FailPoints(arg, store) ==
    {0} \cup {i \in 1..Len(arg.value) :
                 /\ arg.type \in {"str", "tuple"}
                 /\ arg.value[i] \in LANGLIST
                 /\ \E j \in 1..i : arg.value[j] \in LANGLIST \ Range(store)}

Next ==
    \E arg \in Args : \E fail_at \in FailPoints(arg, cache) :
        /\ GetDictionaries(arg, fail_at)
        /\ UNCHANGED <<recency, requested, disk_ran, disk_loaded, earlier>>

Spec == Init /\ [][Next]_vars

LruNext ==
    \E arg \in Args : \E fail_at \in FailPoints(arg, cache) :
        /\ GetDictionaries(arg, fail_at)
        /\ RecordAccess
        /\ UNCHANGED <<requested, disk_ran, disk_loaded, earlier>>

\* Spec with the access order recorded
LruSpec == Init /\ [][LruNext]_vars

LoaderNext ==
    \E arg \in Args : \E fail_at \in FailPoints(arg, cache) :
        /\ GetDictionaries(arg, fail_at)
        /\ RecordLoader
        /\ UNCHANGED <<recency, earlier>>

\* Spec with the requests and the loader's runs recorded
LoaderSpec == Init /\ [][LoaderNext]_vars

----------------------------------------------------------------------------
(* A caller that keeps a mapping *)

\* The caller keeps a reference to the mapping the most recent call
\* returned, in place of the one it kept before, and notes the keys the
\* mapping has.
Keep ==
    /\ call.ret # None
    /\ call.ret # earlier.id
    /\ earlier' = [id |-> call.ret, keys |-> heap[call.ret]]
    /\ heap' = [id \in {data, call.ret} |-> heap[id]]
    /\ UNCHANGED <<cache_max_size, data, cache, call, request, recency, requested,
                   disk_ran, disk_loaded, svars, other, lookup>>

\* The arguments of the caller that keeps a mapping: the tuples (a str is
\* the tuple of that one code once _control_lang has run, and an argument
\* of another type ends the call in _control_lang).
KeepArgs == {arg \in Args : arg.type = "tuple"}

KeepNext ==
    \/ Keep
    \/ \E arg \in KeepArgs : \E fail_at \in FailPoints(arg, cache) :
           /\ GetDictionaries(arg, fail_at)
           /\ UNCHANGED <<recency, requested, disk_ran, disk_loaded, earlier>>

KeepSpec == Init /\ [][KeepNext]_vars

----------------------------------------------------------------------------
(* Two factories *)

\* one lru_cache store for every instance
SharedStore(instance) == 1

\* the lru_cache store an instance loads through: __init__ wraps the loader
\* anew for each instance, so the store is the instance's own
StoreOf(instance) == instance

\* The arguments given to the two factories: a tuple of no code or one.
PairArgs == {PyTuple(<<>>)} \cup {PyTuple(<<c>>) : c \in Codes}

\* One call get_dictionaries(arg) on the first factory (instance 1, held in
\* data, heap, cache, call and request) or on the second (instance 2, held
\* in other).
GetDictionariesOn(instance, arg, fail_at) ==
    LET stores == <<cache, other.cache>>
        mine == IF instance = 1
                THEN [data |-> data, heap |-> heap, call |-> call]
                ELSE [data |-> other.data, heap |-> other.heap, call |-> other.call]
        self == [data |-> mine.data, heap |-> mine.heap,
                 cache |-> stores[StoreOf(instance)], cache_max_size |-> cache_max_size]
        held == {mine.call.ret} \ {None}
    IN  \E r \in {get_dictionaries(self, arg, held, fail_at)} :
        LET live == {r.self.data, r.ret} \ {None}
            after == [data |-> r.self.data,
                      heap |-> [id \in live |-> r.self.heap[id]],
                      call |-> [type |-> arg.type, outcome |-> r.outcome, ret |-> r.ret,
                                trace |-> r.trace]]
            stored == [stores EXCEPT ![StoreOf(instance)] = r.self.cache]
        IN
        /\ cache' = stored[1]
        /\ IF instance = 1
           THEN /\ data' = after.data
                /\ heap' = after.heap
                /\ call' = after.call
                /\ request' = [langs |-> arg.value, outcome |-> r.outcome,
                               done |-> IF r.outcome = "LoadError" THEN Len(r.trace) - 1
                                        ELSE Len(arg.value)]
                /\ other' = [other EXCEPT !.cache = stored[2]]
           ELSE /\ other' = [data |-> after.data, heap |-> after.heap,
                             cache |-> stored[2], call |-> after.call]
                /\ UNCHANGED <<data, heap, call, request>>
        /\ UNCHANGED <<cache_max_size, recency, requested, disk_ran, disk_loaded,
                       svars, earlier, lookup>>

PairNext ==
    \E instance \in {1, 2} : \E arg \in PairArgs : \E fail_at \in FailPoints(arg, <<cache, other.cache>>[StoreOf(instance)]) :
        GetDictionariesOn(instance, arg, fail_at)

PairSpec == Init /\ [][PairNext]_vars

----------------------------------------------------------------------------
(* Tokens: a token is the sequence of its characters *)

\* the characters for which str.isupper() holds
Upper == {"A", "B"}

Vocabulary == {<<"A", "p">>, <<"a", "p">>, <<"B", "a">>, <<"c", "a">>, <<>>}

\* the capitalized_threshold values tried, each a fraction <<n, d>> = n / d;
\* 0.8 and 0 are the defaults. (Each, as a float, times a count of at most
\* MaxTokens + 1 is the exact product, so the comparison of line 68 is the
\* comparison of the fractions.)
Thresholds == {<<0, 1>>, <<1, 2>>, <<4, 5>>, <<1, 1>>, <<3, 2>>, <<0 - 1, 2>>}

DefaultSampleSize == 100
RelaxedSampleSize == 1000

----------------------------------------------------------------------------
(* collections.Counter *)

RECURSIVE Distinct(_)
\* the keys of Counter(tokens): the distinct tokens in order of first occurrence
Distinct(tokens) ==
    IF tokens = <<>> THEN <<>>
    ELSE LET front == Distinct(SubSeq(tokens, 1, Len(tokens) - 1))
             last == tokens[Len(tokens)]
         IN  IF last \in Range(front) THEN front ELSE Append(front, last)

\* Counter(tokens)[token]
Occurrences(tokens, token) == Cardinality({i \in 1..Len(tokens) : tokens[i] = token})

\* Counter(tokens): the keys in insertion order and the count of each
Counter(tokens) ==
    [keys |-> Distinct(tokens),
     count |-> [token \in Range(tokens) |-> Occurrences(tokens, token)]]

\* del counter[token] for every token of deletions
Delete(counter, deletions) ==
    [keys |-> SelectSeq(counter.keys, LAMBDA token : token \notin Range(deletions)),
     count |-> [token \in DOMAIN counter.count \ Range(deletions) |-> counter.count[token]]]

RECURSIVE InsertByCount(_, _, _)
\* token put after the tokens that occur at least as often
InsertByCount(ranked, token, count) ==
    IF ranked = <<>> THEN <<token>>
    ELSE IF count[Head(ranked)] >= count[token]
         THEN <<Head(ranked)>> \o InsertByCount(Tail(ranked), token, count)
         ELSE <<token>> \o ranked

RECURSIVE SortByCount(_, _)
\* sorted(items, key = count, reverse = True): equal counts keep their order
SortByCount(keys, count) ==
    IF keys = <<>> THEN <<>>
    ELSE InsertByCount(SortByCount(SubSeq(keys, 1, Len(keys) - 1), count),
                       keys[Len(keys)], count)

\* the whole ranking, whatever n
most_common_all(counter, n) == SortByCount(counter.keys, counter.count)

\* the first n keys as the Counter holds them, not ranked
most_common_unsorted(counter, n) ==
    SubSeq(counter.keys, 1, Min(n, Len(counter.keys)))

\* [item[0] for item in counter.most_common(n)]
most_common(counter, n) ==
    LET ranked == SortByCount(counter.keys, counter.count)
    IN  SubSeq(ranked, 1, Min(n, Len(ranked)))

----------------------------------------------------------------------------
(* MostCommonTokenSampler *)

\* __init__
MostCommonTokenSampler(sample_size, capitalized_threshold) ==
    [sample_size |-> sample_size, capitalized_threshold |-> capitalized_threshold]

\* RelaxedMostCommonTokenSampler.__init__ with its defaults
RelaxedMostCommonTokenSampler == MostCommonTokenSampler(RelaxedSampleSize, <<0, 1>>)

\* token[0].isupper()
Capitalized(token) == token[1] \in Upper

\* the guard that lets a threshold of 0 through
FilterOnFromZero(threshold) == threshold[1] >= 0

\* threshold > 0
FilterOn(threshold) == threshold[1] > 0

\* the comparison that also holds at the threshold
AtOrBelowThreshold(n, threshold, total) == n * threshold[2] <= threshold[1] * total

\* n < threshold * total
BelowThreshold(n, threshold, total) == n * threshold[2] < threshold[1] * total

\* sample_tokens: the outcome and the list returned
sample_tokens(self, tokens) ==
    LET counter == Counter(tokens)
        threshold == self.capitalized_threshold
    IN  IF FilterOn(threshold) /\ <<>> \in Range(counter.keys) THEN
            \* token[0] of an empty token
            [outcome |-> "IndexError", result |-> <<>>]
        ELSE
        LET deletions == IF FilterOn(threshold)
                         THEN SelectSeq(counter.keys, Capitalized) ELSE <<>>
            filtered == IF FilterOn(threshold)
                           /\ BelowThreshold(Len(deletions), threshold, Len(counter.keys))
                        THEN Delete(counter, deletions) ELSE counter
        IN  [outcome |-> "ok", result |-> most_common(filtered, self.sample_size)]

----------------------------------------------------------------------------
(* The sampler as a state machine: a sampler is built, a token sequence is  *)
(* at hand, and sample_tokens is called on it.                              *)

Samplers ==
    {MostCommonTokenSampler(n, t) : n \in 0..MaxSample \cup {DefaultSampleSize},
                                    t \in Thresholds}
    \cup {RelaxedMostCommonTokenSampler}

SamplerInit ==
    /\ sampler \in Samplers
    /\ sample \in {[tokens |-> tokens, outcome |-> "none", result |-> <<>>] :
                   tokens \in SeqsUpTo(Vocabulary, MaxTokens)}
    /\ cache_max_size = 0
    /\ data = DictionaryFactory(cache_max_size).data
    /\ heap = DictionaryFactory(cache_max_size).heap
    /\ cache = DictionaryFactory(cache_max_size).cache
    /\ call = NoCall
    /\ request = [langs |-> <<>>, outcome |-> "none", done |-> 0]
    /\ recency = <<>>
    /\ requested = {}
    /\ disk_ran = {}
    /\ disk_loaded = {}
    /\ earlier = NoEarlier
    /\ other = SecondFactory(cache_max_size)
    /\ lookup = NoLookup

SampleTokens ==
    /\ sample.outcome = "none"
    /\ \E r \in {sample_tokens(sampler, sample.tokens)} :
           sample' = [tokens |-> sample.tokens, outcome |-> r.outcome, result |-> r.result]
    /\ UNCHANGED <<sampler, fvars, xvars>>

SamplerNext == SampleTokens

SamplerSpec == SamplerInit /\ [][SamplerNext]_vars

----------------------------------------------------------------------------
(* LemmatizationStrategy. The protocol declares get_lemma; the strategies  *)
(* that implement it and the runner of the chain are described by the      *)
(* specification: get_lemma(token, language_code) gives a lemma or nothing,*)
(* a strategy reads dictionaries through the working set of the factory,   *)
(* and the runner asks each strategy in order until one gives a lemma or   *)
(* the chain is exhausted.                                                 *)

\* the value a strategy returns for "no result"
Absent == ""

\* the classes that subclass the protocol: one that does not override
\* get_lemma, and two that do
Classes == {"NotOverriding", "DictionaryLookup", "AffixStripping"}

\* every class can be instantiated
InstantiableAny(class) == TRUE

\* @abstractmethod: a class that does not override get_lemma cannot be
\* instantiated
Instantiable(class) == class # "NotOverriding"

\* the body of LemmatizationStrategy.get_lemma
LemmatizationStrategy_get_lemma(token, lang) == [raised |-> TRUE, value |-> Absent]

Words == {"go", "goes", "went", "geht", "zzz"}

\* the dictionary of each language: surface form -> lemma
Dictionary ==
    [lang \in LANGLIST |->
        CASE lang = "en" -> ("go" :> "go") @@ ("went" :> "go")
          [] lang = "de" -> ("geht" :> "gehen")
          [] OTHER -> ("zzz" :> "zzz")]

\* the token without the affix a strategy strips ("" when it has none)
Stripped == ("goes" :> "go") @@ ("geht" :> "geh")

\* a lookup that takes a token the dictionary does not hold for an error
lookup_strict(token, lang, working) ==
    IF lang \in Range(working) /\ token \in DOMAIN Dictionary[lang]
    THEN [raised |-> FALSE, value |-> Dictionary[lang][token]]
    ELSE [raised |-> TRUE, value |-> Absent]

\* the exact match of the token in the dictionary of lang, which is read
\* from the working set
lookup_exact(token, lang, working) ==
    IF lang \in Range(working) /\ token \in DOMAIN Dictionary[lang]
    THEN [raised |-> FALSE, value |-> Dictionary[lang][token]]
    ELSE [raised |-> FALSE, value |-> Absent]

\* the match of the token with its affix stripped
lookup_stripped(token, lang, working) ==
    IF token \in DOMAIN Stripped
    THEN lookup_exact(Stripped[token], lang, working)
    ELSE [raised |-> FALSE, value |-> Absent]

\* strategy.get_lemma(token, lang) by the class of the strategy
get_lemma(class, token, lang, working) ==
    CASE class = "DictionaryLookup" -> lookup_exact(token, lang, working)
      [] class = "AffixStripping" -> lookup_stripped(token, lang, working)
      [] OTHER -> LemmatizationStrategy_get_lemma(token, lang)

\* the chains a caller can build: up to two strategies
Chains == UNION {[1..n -> {class \in Classes : Instantiable(class)}] : n \in 0..2}

\* the working sets the strategies read: what get_dictionaries left
WorkingSets == {<<>>, <<"en">>, <<"de", "en">>}

StrategyInit ==
    /\ lookup \in {[chain |-> chain, token |-> token, lang |-> lang, working |-> working,
                    at |-> 1, outcome |-> "running", value |-> Absent] :
                   chain \in Chains, token \in Words, lang \in Codes,
                   working \in WorkingSets}
    /\ cache_max_size = 0
    /\ data = DictionaryFactory(cache_max_size).data
    /\ heap = DictionaryFactory(cache_max_size).heap
    /\ cache = DictionaryFactory(cache_max_size).cache
    /\ call = NoCall
    /\ request = [langs |-> <<>>, outcome |-> "none", done |-> 0]
    /\ recency = <<>>
    /\ requested = {}
    /\ disk_ran = {}
    /\ disk_loaded = {}
    /\ sampler = NoSampler
    /\ sample = NoSample
    /\ earlier = NoEarlier
    /\ other = SecondFactory(cache_max_size)

\* The runner asks the strategy it has reached: a lemma ends the lookup, no
\* result sends it to the next strategy, an exception ends it with an error.
AskStrategy ==
    /\ lookup.outcome = "running"
    /\ lookup.at <= Len(lookup.chain)
    /\ \E r \in {get_lemma(lookup.chain[lookup.at], lookup.token, lookup.lang,
                           lookup.working)} :
           lookup' = IF r.raised THEN [lookup EXCEPT !.outcome = "raised"]
                     ELSE IF r.value # Absent
                     THEN [lookup EXCEPT !.outcome = "found", !.value = r.value]
                     ELSE [lookup EXCEPT !.at = @ + 1]
    /\ UNCHANGED <<fvars, svars, earlier, other>>

\* The chain is exhausted: the lookup ends without a lemma.
Exhausted ==
    /\ lookup.outcome = "running"
    /\ lookup.at > Len(lookup.chain)
    /\ lookup' = [lookup EXCEPT !.outcome = "absent"]
    /\ UNCHANGED <<fvars, svars, earlier, other>>

StrategyNext == AskStrategy \/ Exhausted

StrategySpec == StrategyInit /\ [][StrategyNext]_vars

----------------------------------------------------------------------------
(* Properties of the dictionary factory *)

\* the supported codes of a request
Supported(langs) == Range(langs) \cap LANGLIST

\* the keys of the working set
WorkingSet == heap[data]

\* the step is a call that passed _control_lang, made right after one that did
TwoRequests == call.outcome # "TypeError" /\ call'.outcome # "TypeError"

RECURSIVE FirstAppearances(_)
\* the supported codes of a request, each at its first appearance
FirstAppearances(langs) ==
    IF langs = <<>> THEN <<>>
    ELSE LET front == FirstAppearances(SubSeq(langs, 1, Len(langs) - 1))
             lang == langs[Len(langs)]
         IN  IF lang \in LANGLIST /\ lang \notin Range(front) THEN Append(front, lang)
             ELSE front

\* C1: when get_dictionaries is called twice in succession with requests of
\* supported codes that name the same codes (compared as sorted sequences),
\* the second call returns the very object the first returned, unchanged,
\* and makes no LRU lookup and no loader call.
C1_SecondCallReturnsSameObject ==
    [][(/\ TwoRequests
        /\ call.outcome = "ok" /\ call'.outcome = "ok"
        /\ Range(request.langs) \subseteq LANGLIST
        /\ Sorted(request'.langs) = Sorted(request.langs))
       => (/\ call'.ret = call.ret
           /\ heap'[call'.ret] = heap[call.ret]
           /\ call'.trace = <<>>)]_vars

\* C2: a call whose argument is a str or a tuple, and during which the
\* loader does not fail, returns, whatever unsupported codes the request
\* names and whatever the working set was, and the keys of the mapping it
\* returns are exactly the supported codes of the request.
C2_KeysAreTheSupportedCodes ==
    (/\ call.type \in {"str", "tuple"}
     /\ \A i \in 1..Len(call.trace) : call.trace[i].kind # "fail")
    => (/\ call.outcome = "ok"
        /\ Range(heap[call.ret]) = Supported(request.langs))

\* C2 witness: a call returned for a request of supported and unsupported codes.
C2_Witness ==
    /\ call.outcome = "ok"
    /\ Supported(request.langs) # {}
    /\ ~(Range(request.langs) \subseteq LANGLIST)

\* C3 as claimed: after every request, returned or failed, the keys of the
\* working set are exactly the supported codes of the request.
C3_KeysAfterEveryRequest ==
    request.outcome # "none" => Range(WorkingSet) = Supported(request.langs)

\* C3: between calls the keys of the working set are exactly the supported
\* codes of the most recent request when that call returned, and when it
\* failed with a loader error they are the supported codes that come before
\* the failing one in the request (a subset of the request's supported codes).
C3_KeysAfterRequest ==
    /\ request.outcome = "none" => WorkingSet = <<>>
    /\ request.outcome = "ok" => Range(WorkingSet) = Supported(request.langs)
    /\ request.outcome = "LoadError" =>
           /\ Range(WorkingSet) = Supported(SubSeq(request.langs, 1, request.done))
           /\ request.langs[request.done + 1] \in LANGLIST

\* C3 witness: a loader error left the working set with one of the two
\* supported codes of the request, and a call with a type error came after.
C3_Witness ==
    /\ request.outcome = "LoadError"
    /\ call.outcome = "TypeError"
    /\ Len(WorkingSet) = 1
    /\ Cardinality(Supported(request.langs)) = 2

\* C4: the LRU store never holds more than cache_max_size dictionaries, and
\* holds no language twice.
C4_StoreWithinCapacity ==
    /\ Len(cache) <= cache_max_size
    /\ Cardinality(Range(cache)) = Len(cache)

\* C4 witness: the store is full, of the largest capacity, and the last call
\* made room in it.
C4_Witness ==
    /\ cache_max_size = MaxCacheSize
    /\ Len(cache) = cache_max_size
    /\ \E i \in 1..Len(call.trace) : call.trace[i].evicted # <<>>

\* the n codes most recently accessed, of an access order
MostRecent(order, n) == {order[i] : i \in {j \in 1..Len(order) : j > Len(order) - n}}

\* the events of the step's call, each with the access order it found
EventsOfStep == {[ev |-> call'.trace[i],
                  order |-> Touched(recency, SubSeq(call'.trace, 1, i - 1))] :
                 i \in {j \in 1..Len(call'.trace) : call'.trace[j].kind # "unsupported"}}

\* C5: a load evicts exactly when the store is full, and the entry it evicts
\* is the one accessed (loaded or hit) longest ago among those stored; the
\* store therefore holds the cache_max_size most recently accessed codes,
\* a request for one of them is a hit, and a request for any other code,
\* an evicted one included, runs the disk loader again.
C5_EvictsLeastRecentlyUsed ==
    [][/\ \A e \in EventsOfStep :
            /\ e.ev.kind = "hit" <=> e.ev.lang \in MostRecent(e.order, cache_max_size)
            /\ e.ev.evicted # <<>> <=>
                   (e.ev.kind = "load" /\ cache_max_size > 0
                                       /\ Len(e.order) >= cache_max_size)
            /\ e.ev.evicted # <<>> =>
                   e.ev.evicted[1] = e.order[Len(e.order) - cache_max_size + 1]
       /\ Range(cache') = MostRecent(recency', cache_max_size)]_vars

\* C5 witness: cache_max_size + 1 languages were requested, the last call
\* evicted the one accessed longest ago, and the others are stored.
C5_Witness ==
    /\ cache_max_size = MaxCacheSize
    /\ Len(recency) = cache_max_size + 1
    /\ call.trace # <<>>
    /\ call.trace[Len(call.trace)].evicted = <<recency[1]>>
    /\ Range(cache) = Range(Tail(recency))

\* C6 as claimed: while the requests name at most cache_max_size distinct
\* supported languages, the disk loader runs at most once per language.
C6_LoaderRunsOnce ==
    [][Cardinality(requested') <= cache_max_size =>
           \A lang \in LANGLIST :
               Count(call'.trace, lang, {"load", "fail"})
                   + (IF lang \in disk_ran THEN 1 ELSE 0) <= 1]_vars

\* C6: while the requests name at most cache_max_size distinct supported
\* languages, the disk loader returns a dictionary at most once per
\* language, and never runs for a language it has returned a dictionary
\* for; it runs again for a language only after a run that failed.
C6_LoaderLoadsOnce ==
    [][Cardinality(requested') <= cache_max_size =>
           \A lang \in LANGLIST :
               /\ Count(call'.trace, lang, {"load"})
                      + (IF lang \in disk_loaded THEN 1 ELSE 0) <= 1
               /\ lang \in disk_loaded => Count(call'.trace, lang, {"load", "fail"}) = 0]_vars

\* C6 witness: cache_max_size languages were requested and loaded, and the
\* last call, for as many codes as a request can name, was served from the
\* store alone.
C6_Witness ==
    /\ cache_max_size = MaxCacheSize
    /\ Cardinality(requested) = cache_max_size
    /\ disk_loaded = requested
    /\ Len(call.trace) = MaxLangs
    /\ \A i \in 1..Len(call.trace) : call.trace[i].kind = "hit"

\* C7: a call with an argument that is neither a str nor a tuple ends with
\* a type error, runs no lookup and no loader, and leaves the working set
\* and the LRU store as they were.
C7_TypeErrorChangesNothing ==
    [][call'.type \notin {"str", "tuple"} =>
           /\ call'.outcome = "TypeError"
           /\ call'.ret = None
           /\ call'.trace = <<>>
           /\ UNCHANGED <<data, heap, cache, request>>]_vars

\* C7 witness: a list was passed to a factory whose working set and store
\* hold dictionaries.
C7_Witness ==
    /\ call.type = "list"
    /\ call.outcome = "TypeError"
    /\ WorkingSet # <<>>
    /\ cache # <<>>

\* C8: the mapping a call returns lists the supported codes of the request
\* in the order of their first appearance in the request, whatever the
\* working set held before.
C8_KeysInRequestOrder ==
    call.outcome = "ok" => heap[call.ret] = FirstAppearances(request.langs)

\* C8 witness: a call returned two codes, both served from the store, in the
\* order of the request, which is not the sorted order.
C8_Witness ==
    /\ call.outcome = "ok"
    /\ Len(heap[call.ret]) = 2
    /\ Rank(heap[call.ret][1]) > Rank(heap[call.ret][2])
    /\ \A i \in 1..Len(call.trace) : call.trace[i].kind = "hit"

\* the code of the last request at which the loader failed
FailedCode == request.langs[request.done + 1]

\* the first event of a trace about a code
FirstEvent(trace, lang) ==
    trace[CHOOSE i \in 1..Len(trace) :
              /\ trace[i].lang = lang
              /\ \A j \in 1..(i - 1) : trace[j].lang # lang]

\* C14: over any sequence of calls the loader, and so the LRU store, is
\* given supported codes only: an unsupported code of a request is skipped,
\* is neither loaded nor stored, and takes no slot of the store (a request of
\* unsupported codes only leaves the store as it was).
C14_OnlySupportedCodesReachLoader ==
    [][/\ Range(cache') \subseteq LANGLIST
       /\ Range(heap'[data']) \subseteq LANGLIST
       /\ \A i \in 1..Len(call'.trace) :
              LET ev == call'.trace[i]
              IN  /\ ev.kind \in {"hit", "load", "fail"} => ev.lang \in LANGLIST
                  /\ ev.lang \notin LANGLIST =>
                         (ev.kind = "unsupported" /\ ev.evicted = <<>>)
       /\ (\A i \in 1..Len(call'.trace) : call'.trace[i].lang \notin LANGLIST)
              => cache' = cache]_vars

\* C14 witness: a request of an unsupported code and a supported one, made
\* when the store was full, skipped the first and loaded the second, which
\* took the slot of the least recently used code.
C14_Witness ==
    /\ call.outcome = "ok"
    /\ Len(call.trace) = 2
    /\ call.trace[1].kind = "unsupported"
    /\ call.trace[2].kind = "load"
    /\ call.trace[2].evicted # <<>>
    /\ Len(cache) = cache_max_size
    /\ WorkingSet = <<call.trace[2].lang>>

\* C15: when the loader fails for a supported code of the request, the call
\* ends with that error and returns no mapping, and the loop stops there:
\* no code after the failing one is looked up or loaded.
C15_LoaderFailureEndsCall ==
    \A i \in 1..Len(call.trace) :
        call.trace[i].kind = "fail" =>
            /\ call.outcome = "LoadError"
            /\ call.ret = None
            /\ i = Len(call.trace)
            /\ call.trace[i].lang = request.langs[i]
            /\ Range(WorkingSet) \subseteq Range(SubSeq(request.langs, 1, i - 1))

\* C15 witness: the loader failed for the first code of a request of two
\* supported codes, and the second, which the store does not hold, was not
\* loaded.
C15_Witness ==
    /\ call.outcome = "LoadError"
    /\ cache_max_size > 0
    /\ Len(request.langs) = 2
    /\ Len(call.trace) = 1
    /\ request.langs[2] \in LANGLIST \ Range(cache)
    /\ request.langs[2] # request.langs[1]
    /\ WorkingSet = <<>>

\* C17: a request of the empty tuple returns an empty working set, runs no
\* loader and leaves the LRU store as it was, whether the working set was
\* empty before or held dictionaries.
C17_EmptyRequestEmptiesWorkingSet ==
    [][(call'.type = "tuple" /\ request'.langs = <<>>) =>
           /\ call'.outcome = "ok"
           /\ call'.ret = data'
           /\ heap'[data'] = <<>>
           /\ call'.trace = <<>>
           /\ cache' = cache]_vars

\* C17 witness: the empty tuple was requested of a factory whose store holds
\* the dictionaries loaded for its working set before; the working set is
\* empty and the store still holds them.
C17_Witness ==
    /\ call.type = "tuple"
    /\ call.outcome = "ok"
    /\ request.langs = <<>>
    /\ WorkingSet = <<>>
    /\ cache_max_size > 0
    /\ Len(cache) = cache_max_size

\* C19: after the loader has failed for a code, the code holds no slot of
\* the LRU store, and the next request that names it runs the loader for it
\* again instead of being served from the store.
C19_FailedLoadNotRemembered ==
    [][request.outcome = "LoadError" =>
           /\ FailedCode \notin Range(cache)
           /\ (\E i \in 1..Len(call'.trace) : call'.trace[i].lang = FailedCode)
                  => FirstEvent(call'.trace, FailedCode).kind \in {"load", "fail"}]_vars

\* C19 witness: the loader failed for a code in a factory that stores what
\* it loads, the code loaded before it in the same request is in the store,
\* and the failing code is not.
C19_Witness ==
    /\ request.outcome = "LoadError"
    /\ call.outcome = "LoadError"
    /\ Len(call.trace) = 2
    /\ call.trace[1].kind = "load"
    /\ call.trace[1].lang \in Range(cache)
    /\ FailedCode \notin Range(cache)

\* C16: two factories are isolated. A call on one leaves the other as it
\* was: its working set, its LRU store (contents and order), its last
\* call. And a factory is served from the store only what its own store
\* held, so a code loaded through one factory is loaded from disk when the
\* other is first asked for it.
C16_InstancesAreIsolated ==
    [][/\ \/ <<data, heap, cache, call, request>>' = <<data, heap, cache, call, request>>
          \/ other' = other
       /\ \A i \in 1..Len(call'.trace) :
              (call' # call /\ call'.trace[i].kind = "hit")
                  => call'.trace[i].lang \in Range(cache)
       /\ \A i \in 1..Len(other'.call.trace) :
              (other'.call # other.call /\ other'.call.trace[i].kind = "hit")
                  => other'.call.trace[i].lang \in Range(other.cache)]_vars

\* C16 witness: the second factory has loaded from disk a code the first
\* factory holds in its store and was last served from it, and the two
\* stores differ.
C16_Witness ==
    /\ cache_max_size > 0
    /\ Len(call.trace) = 1
    /\ Len(other.call.trace) = 1
    /\ call.trace[1].kind = "hit"
    /\ other.call.trace[1].kind = "load"
    /\ call.trace[1].lang = other.call.trace[1].lang
    /\ call.trace[1].lang \in Range(cache) \cap Range(other.cache)
    /\ cache # other.cache

\* C18: a mapping an earlier call returned, to which the caller kept a
\* reference, has the keys it had when it was returned, whatever calls the
\* factory has served since.
C18_ReturnedMappingNeverModified ==
    earlier.id # None =>
        /\ earlier.id \in DOMAIN heap
        /\ heap[earlier.id] = earlier.keys

\* C18 witness: after the caller kept a mapping with keys, a request for
\* other codes returned a new mapping with other keys.
C18_Witness ==
    /\ earlier.id # None
    /\ earlier.keys # <<>>
    /\ call.outcome = "ok"
    /\ call.ret # earlier.id
    /\ data # earlier.id
    /\ WorkingSet # <<>>
    /\ Range(WorkingSet) # Range(earlier.keys)

\* C18 witness of the failing case: after the caller kept a mapping with
\* keys, a request failed in the loader and left a working set with other
\* keys.
C18_WitnessFailed ==
    /\ earlier.id # None
    /\ earlier.keys # <<>>
    /\ call.outcome = "LoadError"
    /\ data # earlier.id
    /\ WorkingSet # earlier.keys

----------------------------------------------------------------------------
(* Properties of the lemmatization strategies *)

----------------------------------------------------------------------------
(* Properties of the token sampler *)

\* the distinct tokens of the input, and the capitalized ones among them
DistinctTokens == Range(sample.tokens)
CapitalizedTokens == {token \in DistinctTokens : token # <<>> /\ token[1] \in Upper}

\* where a token first occurs in the input
FirstAt(token) == CHOOSE i \in 1..Len(sample.tokens) :
                      /\ sample.tokens[i] = token
                      /\ \A j \in 1..(i - 1) : sample.tokens[j] # token

\* a occurs more often than b in the input, or as often and earlier
Outranks(a, b) ==
    \/ Occurrences(sample.tokens, a) > Occurrences(sample.tokens, b)
    \/ /\ Occurrences(sample.tokens, a) = Occurrences(sample.tokens, b)
       /\ FirstAt(a) < FirstAt(b)

\* result is the n best ranked tokens of pool, best first
IsTop(result, pool, n) ==
    /\ Range(result) \subseteq pool
    /\ Len(result) = Min(n, Cardinality(pool))
    /\ \A i, j \in 1..Len(result) : i < j => Outranks(result[i], result[j])
    /\ \A kept \in Range(result), cut \in pool \ Range(result) : Outranks(kept, cut)

\* C9: with a threshold t > 0, D distinct tokens and C distinct capitalized
\* tokens: if C < t * D the result holds no capitalized token; if C >= t * D
\* the result is the ranking of all the tokens, capitalized ones included.
C9_CapitalizedDroppedBelowThreshold ==
    LET t == sampler.capitalized_threshold
        C == Cardinality(CapitalizedTokens)
        D == Cardinality(DistinctTokens)
    IN  (sample.outcome = "ok" /\ t[1] > 0) =>
            /\ C * t[2] < t[1] * D => Range(sample.result) \cap CapitalizedTokens = {}
            /\ C * t[2] >= t[1] * D =>
                   IsTop(sample.result, DistinctTokens, sampler.sample_size)

\* C9 witness: the capitalized tokens are exactly the share t of the
\* distinct tokens, and one of them is in the result.
C9_Witness ==
    LET t == sampler.capitalized_threshold
    IN  /\ sample.outcome = "ok"
        /\ t[1] > 0
        /\ CapitalizedTokens # DistinctTokens
        /\ Cardinality(CapitalizedTokens) * t[2] = t[1] * Cardinality(DistinctTokens)
        /\ Range(sample.result) \cap CapitalizedTokens # {}

\* C9 witness of the other case: the capitalized tokens are fewer than the
\* share t, and the result holds the other tokens only.
C9_WitnessDropped ==
    LET t == sampler.capitalized_threshold
    IN  /\ sample.outcome = "ok"
        /\ t[1] > 0
        /\ CapitalizedTokens # {}
        /\ Cardinality(CapitalizedTokens) * t[2] < t[1] * Cardinality(DistinctTokens)
        /\ sample.result # <<>>
        /\ Range(sample.result) \cap CapitalizedTokens = {}

\* C10: with a threshold of 0, sample_tokens returns, and the result is the
\* sample_size best ranked distinct tokens of the whole input, capitalized
\* or not.
C10_NoFilterAtZero ==
    (sample.outcome # "none" /\ sampler.capitalized_threshold[1] = 0) =>
        /\ sample.outcome = "ok"
        /\ IsTop(sample.result, DistinctTokens, sampler.sample_size)

\* C10 witness: the relaxed sampler kept capitalized tokens that are a
\* minority of the distinct tokens.
C10_Witness ==
    /\ sampler = RelaxedMostCommonTokenSampler
    /\ sample.outcome = "ok"
    /\ CapitalizedTokens # {}
    /\ Cardinality(CapitalizedTokens) * 5 < 4 * Cardinality(DistinctTokens)
    /\ CapitalizedTokens \subseteq Range(sample.result)

\* the capitalization filter removed the capitalized tokens of the input
FilterApplied ==
    LET t == sampler.capitalized_threshold
    IN  /\ t[1] > 0
        /\ Cardinality(CapitalizedTokens) * t[2] < t[1] * Cardinality(DistinctTokens)

\* the distinct tokens the filter left to be ranked
RankedTokens ==
    IF FilterApplied THEN DistinctTokens \ CapitalizedTokens ELSE DistinctTokens

\* C11: the list sample_tokens returns has at most sample_size elements,
\* holds no token twice, and holds tokens of the input only.
C11_SampleBoundedUniqueFromInput ==
    sample.outcome = "ok" =>
        /\ Len(sample.result) <= sampler.sample_size
        /\ \A i, j \in 1..Len(sample.result) :
               sample.result[i] = sample.result[j] => i = j
        /\ Range(sample.result) \subseteq Range(sample.tokens)

\* C11 witness: the input repeats a token and has more distinct tokens than
\* sample_size, and the result has sample_size elements.
C11_Witness ==
    /\ sample.outcome = "ok"
    /\ sampler.sample_size >= 1
    /\ Len(sample.tokens) > Cardinality(DistinctTokens)
    /\ Cardinality(RankedTokens) > sampler.sample_size
    /\ Len(sample.result) = sampler.sample_size

C20_FilterNeverEmptiesSample ==
    LET t == sampler.capitalized_threshold
    IN  (/\ sample.outcome # "none"
         /\ 0 < t[1] /\ t[1] <= t[2]
         /\ sampler.sample_size >= 1
         /\ sample.tokens # <<>>
         /\ <<>> \notin Range(sample.tokens))
        => (sample.outcome = "ok" /\ sample.result # <<>>)

\* C20 witness: every token of the input is capitalized, the threshold is 1,
\* and the result holds capitalized tokens.
C20_Witness ==
    /\ sample.outcome = "ok"
    /\ sampler.capitalized_threshold = <<1, 1>>
    /\ sampler.sample_size >= 1
    /\ Cardinality(DistinctTokens) >= 2
    /\ CapitalizedTokens = DistinctTokens
    /\ sample.result # <<>>

====
